---- MODULE Spec2Model ----
(***************************************************************************)
(* Model of src/dashboard-server.js: the dashboard variant (lines 1-547)   *)
(* and the auth backend (lines 549-1154) of the Cofonita web dashboard.    *)
(*                                                                         *)
(* Strings are sequences of one-character strings.  A few fixed pieces of  *)
(* text (a placeholder token, a URL prefix, a markup fragment) are single  *)
(* symbols of such a sequence.                                             *)
(***************************************************************************)
EXTENDS Integers, Sequences, FiniteSets, TLC

VARIABLES
    variant,    \* which of the two programs of the file this process runs
    store,      \* the MemoryStore: session id -> the User the session holds
    nextSid,    \* the next session id express-session generates
    req,        \* the requests, by slot: in flight, or answered (pc "done")
    clock,      \* Date.now()
    botCache,   \* auth backend: the bot-guild cache
    lastCallAt, \* auth backend: when getBotGuilds was called last (0: never)
    escIn,      \* escapeHtml: the argument text
    escOut      \* escapeHtml: the returned string, or NotYet

escVars  == <<escIn, escOut>>
srvVars  == <<variant, store, nextSid, req>>
authVars == <<clock, botCache, lastCallAt>>
vars == <<variant, store, nextSid, req, clock, botCache, lastCallAt,
          escIn, escOut>>

NotYet == <<"NotYet">>

(***************************************************************************)
(* Bounds                                                                  *)
(***************************************************************************)
MaxEscLen == 4
MaxSlots == 1       \* requests in flight at once
MaxSessions == 1    \* session ids express-session generates
MaxTicks == 3       \* steps of the clock
MaxNameLen == 2     \* length of a username, in the render specification

(***************************************************************************)
(* String helpers                                                          *)
(***************************************************************************)
\* all sequences over S of length at most n
StringsUpTo(S, n) == UNION {[1..k -> S] : k \in 0..n}

RECURSIVE ConcatRange(_, _, _)
\* ss[lo] \o ... \o ss[hi], by halves
ConcatRange(ss, lo, hi) ==
    IF lo > hi THEN <<>>
    ELSE IF lo = hi THEN ss[lo]
    ELSE LET mid == (lo + hi) \div 2
         IN  ConcatRange(ss, lo, mid) \o ConcatRange(ss, mid + 1, hi)

\* the concatenation of a sequence of sequences
Concat(ss) == ConcatRange(ss, 1, Len(ss))

\* String.prototype.replace(/c/g, r) for a one-character pattern c and a
\* replacement r that holds no $ pattern
ReplaceChar(s, c, r) ==
    Concat([i \in 1..Len(s) |-> IF s[i] = c THEN r ELSE <<s[i]>>])

\* s has t at position i
HasAt(s, i, t) ==
    /\ i + Len(t) - 1 <= Len(s)
    /\ SubSeq(s, i, i + Len(t) - 1) = t

(***************************************************************************)
(* escapeHtml (dashboard variant, GET /dashboard)                          *)
(***************************************************************************)
AMP  == <<"&", "a", "m", "p", ";">>
LT   == <<"&", "l", "t", ";">>
GT   == <<"&", "g", "t", ";">>
QUOT == <<"&", "q", "u", "o", "t", ";">>
APOS == <<"&", "#", "0", "3", "9", ";">>

\* the escape without its first pass: an & of the input is left as it is
escapeHtmlNoAmp(text) ==
    IF text = <<>> THEN <<>>
    ELSE ReplaceChar(ReplaceChar(ReplaceChar(ReplaceChar(
             text, "<", LT), ">", GT), "\"", QUOT), "'", APOS)

escapeHtml(text) ==
    IF text = <<>> THEN <<>>                       \* if (!text) return ''
    ELSE ReplaceChar(ReplaceChar(ReplaceChar(ReplaceChar(ReplaceChar(
             text, "&", AMP), "<", LT), ">", GT), "\"", QUOT), "'", APOS)

(***************************************************************************)
(* Data: users, guilds, stats, JSON bodies, responses                      *)
(***************************************************************************)
FRONTEND_URL == "https://cofonitabot.netlify.app"
MAIN_SERVER_URL == "https://cofonitabot.onrender.com"
FINAL_WEBSITE_URL == "https://cofonitabot.netlify.app"

NoUser ==
    [id |-> "none", username |-> <<>>, discriminator |-> <<>>, avatar |-> "",
     avatar_url |-> <<>>, guilds |-> <<>>, accessToken |-> "", refreshToken |-> ""]

NoGuild ==
    [id |-> "none", name |-> <<>>, icon |-> "", permissions |-> 0,
     manageable |-> FALSE, bot_installed |-> FALSE, login_url |-> <<>>,
     approximate_member_count |-> 0]

\* a stats object; uptime is kept in tenths (998 is 99.8)
NoStats == [present |-> FALSE, totalServers |-> 0, totalUsers |-> 0,
            commandsUsed |-> 0, uptime |-> 0, manageableServers |-> 0]

\* let statsData = {totalServers: 0, totalUsers: 0, commandsUsed: 0, uptime: 99.8}
DefaultStats == [present |-> TRUE, totalServers |-> 0, totalUsers |-> 0,
                 commandsUsed |-> 0, uptime |-> 998, manageableServers |-> 0]

\* a JSON body: `fields` names the fields the object has
EmptyJson ==
    [fields |-> {}, success |-> FALSE, user |-> NoUser, stats |-> NoStats,
     error |-> "", login_url |-> <<>>, guild |-> NoGuild]

\* a body that is no object (null, an empty body)
NoJson == [EmptyJson EXCEPT !.fields = {"<none>"}]

NoResp == [kind |-> "none", status |-> 0, location |-> <<>>, json |-> NoJson,
           html |-> <<>>, page |-> ""]

Redirect(loc) == [NoResp EXCEPT !.kind = "redirect", !.status = 302, !.location = loc]
JsonResp(st, body) == [NoResp EXCEPT !.kind = "json", !.status = st, !.json = body]
HtmlResp(st, pg, doc) ==
    [NoResp EXCEPT !.kind = "html", !.status = st, !.page = pg, !.html = doc]

\* g.manageable of userData.guilds.filter(g => g.manageable)
RECURSIVE FilterManageable(_)
FilterManageable(gs) ==
    IF gs = <<>> THEN <<>>
    ELSE IF Head(gs).manageable THEN <<Head(gs)>> \o FilterManageable(Tail(gs))
         ELSE FilterManageable(Tail(gs))

\* guilds.find(pred): the first guild with the id, or NoGuild
RECURSIVE FindGuild(_, _)
FindGuild(gs, gid) ==
    IF gs = <<>> THEN NoGuild
    ELSE IF Head(gs).id = gid THEN Head(gs) ELSE FindGuild(Tail(gs), gid)

(***************************************************************************)
(* encodeURIComponent and the reading of a query string                    *)
(***************************************************************************)
\* the characters of the model's URLs that encodeURIComponent escapes
PctCode ==
    [c \in {"/", "?", "=", "&", "%"} |->
        CASE c = "/" -> <<"%", "2", "F">>
          [] c = "?" -> <<"%", "3", "F">>
          [] c = "=" -> <<"%", "3", "D">>
          [] c = "&" -> <<"%", "2", "6">>
          [] c = "%" -> <<"%", "2", "5">>]

encodeURIComponent(s) ==
    Concat([i \in 1..Len(s) |->
              IF s[i] \in DOMAIN PctCode THEN PctCode[s[i]] ELSE <<s[i]>>])

RECURSIVE decodeURIComponent(_)
decodeURIComponent(s) ==
    IF s = <<>> THEN <<>>
    ELSE IF s[1] = "%"
         THEN IF \E c \in DOMAIN PctCode : HasAt(s, 1, PctCode[c])
              THEN LET c == CHOOSE x \in DOMAIN PctCode : HasAt(s, 1, PctCode[x])
                   IN  <<c>> \o decodeURIComponent(SubSeq(s, 4, Len(s)))
              ELSE <<"URIError">>
         ELSE <<s[1]>> \o decodeURIComponent(Tail(s))

RECURSIVE Before(_, _)
\* the part of s before the first c (all of s when it has none)
Before(s, c) ==
    IF s = <<>> \/ Head(s) = c THEN <<>> ELSE <<Head(s)>> \o Before(Tail(s), c)

RECURSIVE After(_, _)
\* the part of s after the first c (empty when it has none)
After(s, c) ==
    IF s = <<>> THEN <<>>
    ELSE IF Head(s) = c THEN Tail(s) ELSE After(Tail(s), c)

RECURSIVE QueryParam(_, _)
\* the value of parameter `key` in the query string q (a=b&c=d)
QueryParam(q, key) ==
    IF q = <<>> THEN <<"absent">>
    ELSE IF Before(Before(q, "&"), "=") = <<key>>
         THEN After(Before(q, "&"), "=")
         ELSE QueryParam(After(q, "&"), key)

\* the redirect parameter a browser reads from a Location header
RedirectParam(loc) == decodeURIComponent(QueryParam(After(loc, "?"), "redirect"))

\* `${FRONTEND_URL}/login?error=session_expired&redirect=${url}`, raw
LoginRedirectRaw(url) ==
    <<FRONTEND_URL, "/login", "?", "error", "=", "session_expired",
      "&", "redirect", "=">> \o url

\* `${FRONTEND_URL}/login?error=session_expired&redirect=${encodeURIComponent(req.originalUrl)}`
LoginRedirect(url) ==
    <<FRONTEND_URL, "/login", "?", "error", "=", "session_expired",
      "&", "redirect", "=">> \o encodeURIComponent(url)

(***************************************************************************)
(* GET /dashboard: the server cards and the placeholder substitution.      *)
(* A document is a sequence of [ch, src]: the character (or symbol) and    *)
(* where it came from (the template, the markup of the handler, a field    *)
(* of the user, a placeholder's value).                                    *)
(***************************************************************************)
Tag(s, src) == [i \in 1..Len(s) |-> [ch |-> s[i], src |-> src]]
Untag(doc) == [i \in 1..Len(doc) |-> doc[i].ch]
M(sym) == [ch |-> sym, src |-> "markup"]

\* (n / d).toFixed(1) for d a power of ten; the inputs of the model avoid
\* the exact ties x.x5, which toFixed settles by the binary value
Fixed1(n, d) ==
    LET t == (n + (d \div 20)) \div (d \div 10)
    IN  ToString(t \div 10) \o "." \o ToString(t % 10)

formatNumber(num) ==
    IF num = 0 THEN "0"                                  \* if (!num) return '0'
    ELSE IF num >= 1000000 THEN Fixed1(num, 1000000) \o "M"
    ELSE IF num >= 1000 THEN Fixed1(num, 1000) \o "K"
    ELSE ToString(num)

\* one server card, given the name it interpolates
CardWith(name, guild) ==
    LET safeName == Tag(name, "guildname")
        id == [ch |-> guild.id, src |-> "guildid"]
    IN  <<M("<div class=server-card data-guild-id="), id>>
        \o (IF guild.icon # ""
            THEN <<M("<img src=https://cdn.discordapp.com/icons/"), id,
                   [ch |-> guild.icon, src |-> "icon"], M(".png?size=256 alt=")>>
                 \o safeName \o <<M("onerror loading=lazy>")>>
            ELSE <<M("<i class=fas fa-server></i>")>>)
        \o <<M("<div class=server-name>")>> \o safeName \o <<M("</div>")>>
        \o <<M(IF guild.bot_installed THEN "status-online Bot conectado"
                                      ELSE "status-offline Conectar bot"),
             M(IF guild.approximate_member_count # 0
               THEN formatNumber(guild.approximate_member_count) ELSE "?"),
             M(IF guild.bot_installed THEN "configure-btn Configurar"
                                      ELSE "connect-btn Conectar"), id,
             M("view-btn Ver"), id>>

\* a card that interpolates guild.name as it is
serverCardRaw(guild) == CardWith(guild.name, guild)

\* const safeName = escapeHtml(guild.name), and the card
serverCard(guild) == CardWith(escapeHtml(guild.name), guild)

serversHTML(manageableGuilds) ==
    IF Len(manageableGuilds) > 0
    THEN Concat([i \in 1..Len(manageableGuilds) |-> serverCard(manageableGuilds[i])])
    ELSE <<M("<div class=no-servers>No tienes servidores administrables</div>")>>

\* the grave accent of the patterns of String.prototype.replace, by name
BACKTICK == "grave"

RECURSIVE GetSubstitution(_, _, _)
\* the text String.prototype.replace inserts for the match at position i
\* of html: $$ is $, $& the match, $` the text before it, $' the text
\* after it; the expressions have no capture group, so $1 stays as it is
GetSubstitution(repl, html, i) ==
    IF repl = <<>> THEN <<>>
    ELSE IF Len(repl) >= 2 /\ repl[1].ch = "$" /\ repl[2].ch \in {"$", "&", BACKTICK, "'"}
         THEN (CASE repl[2].ch = "$" -> <<repl[1]>>
                 [] repl[2].ch = "&" -> <<html[i]>>
                 [] repl[2].ch = BACKTICK -> SubSeq(html, 1, i - 1)
                 [] repl[2].ch = "'" -> SubSeq(html, i + 1, Len(html)))
              \o GetSubstitution(SubSeq(repl, 3, Len(repl)), html, i)
         ELSE <<repl[1]>> \o GetSubstitution(Tail(repl), html, i)

\* html.replace(new RegExp(key, 'g'), repl)
ReplaceAll(html, key, repl) ==
    Concat([i \in 1..Len(html) |->
              IF html[i].ch = key THEN GetSubstitution(repl, html, i)
              ELSE <<html[i]>>])

RECURSIVE ApplyReplacements(_, _)
\* Object.keys(replacements).forEach(...), in insertion order
ApplyReplacements(html, repls) ==
    IF repls = <<>> THEN html
    ELSE ApplyReplacements(ReplaceAll(html, Head(repls)[1], Head(repls)[2]),
                           Tail(repls))

Placeholders ==
    <<"{{USERNAME}}", "{{DISCRIMINATOR}}", "{{AVATAR_URL}}", "{{SERVER_COUNT}}",
      "{{SERVERS_HTML}}", "{{TOTAL_SERVERS}}", "{{TOTAL_USERS}}",
      "{{COMMANDS_USED}}", "{{UPTIME}}", "{{API_URL}}", "{{WEBSITE_URL}}",
      "{{SERVERS_PLURAL}}", "{{ADMIN_PLURAL}}">>

\* x || dflt for a string
OrElse(x, dflt) == IF x = <<>> THEN dflt ELSE x
\* x || dflt for a number
OrNum(x, dflt) == IF x = 0 THEN dflt ELSE x

\* the replacements object, given the values of {{USERNAME}} and
\* {{DISCRIMINATOR}}
ReplacementsWith(username, discriminator, user, statsData) ==
    LET manageableGuilds == FilterManageable(user.guilds)
        n == Len(manageableGuilds)
        V(key, sym) == <<key, IF sym = "" THEN <<>> ELSE <<[ch |-> sym, src |-> key]>> >>
    IN  << <<"{{USERNAME}}", Tag(username, "username")>>,
           <<"{{DISCRIMINATOR}}", Tag(discriminator, "discriminator")>>,
           <<"{{AVATAR_URL}}",
             Tag(OrElse(user.avatar_url,
                        <<"https://cdn.discordapp.com/embed/avatars/0.png">>),
                 "avatar")>>,
           V("{{SERVER_COUNT}}", ToString(n)),
           <<"{{SERVERS_HTML}}", serversHTML(manageableGuilds)>>,
           V("{{TOTAL_SERVERS}}", formatNumber(OrNum(statsData.totalServers, n))),
           V("{{TOTAL_USERS}}", formatNumber(OrNum(statsData.totalUsers, 0))),
           V("{{COMMANDS_USED}}", formatNumber(OrNum(statsData.commandsUsed, 0))),
           V("{{UPTIME}}", IF statsData.uptime # 0
                           THEN Fixed1(statsData.uptime, 10) ELSE "99.8"),
           V("{{API_URL}}", MAIN_SERVER_URL),
           V("{{WEBSITE_URL}}", FRONTEND_URL),
           V("{{SERVERS_PLURAL}}", IF n # 1 THEN "es" ELSE ""),
           V("{{ADMIN_PLURAL}}", IF n # 1 THEN "s" ELSE "") >>

\* replacements that insert username and discriminator as they are
replacementsRaw(user, statsData) ==
    ReplacementsWith(OrElse(user.username, <<"Usuario">>),
                     OrElse(user.discriminator, <<"0000">>), user, statsData)

\* userData.username and userData.discriminator, escaped, in the replacements
replacements(user, statsData) ==
    ReplacementsWith(escapeHtml(OrElse(user.username, <<"Usuario">>)),
                     escapeHtml(OrElse(user.discriminator, <<"0000">>)),
                     user, statsData)

\* the document res.send(html) sends
renderDashboard(user, template, statsData) ==
    ApplyReplacements(Tag(template, "tpl"), replacements(user, statsData))

(***************************************************************************)
(* Requests, sessions and the finishing of a response (express-session)    *)
(***************************************************************************)
SessionIds == 1..MaxSessions

\* a free slot; the fields of a request in flight:
\*   sid     the id of the stored session it loaded (0: a new session)
\*   user    req.session.user (dashboard) / req.user (auth backend)
\*   dirty   the session was modified and is saved when the response ends
\*   had     the session held a User when the request loaded it
\*   userCalls  the GETs to the main server's /api/user made for the request
\*   answer  what the GET to /api/user gave: the outcome and the body
\*   stats   what the stats call of GET /dashboard gave: the same
\*   ranHandler  the route handler was entered
\*   read    how the readFile of GET /dashboard ended
\*   html    the template GET /dashboard read
\*   call    the request's getBotGuilds call: none, cached or issued
\*   now     the Date.now() that call read
\*   prev    when getBotGuilds was called before that call (0: never)
\*   lastUpdate  botCache.lastUpdate as that call read it
\*   failed  the call's request to Discord failed
\*   ret     what the call returned
\*   cached  botCache.guilds when the call returned, before it stored anything
\*   profile the profile the OAuth exchange gave (with the tokens)
\*   exchange   how passport ended the code exchange of the callback route
\*   proxyCalls the requests the handler made to the main server
\*   proxied what the main server gave the handler's proxy call
\*   pending the getBotGuilds calls awaiting Discord when that call began
\*   cachedAt   botCache.lastUpdate when the call returned, before it stored anything
\*   sent    the responses sent for the request
Idle ==
    [pc |-> "idle", sid |-> 0, route |-> "", gid |-> "",
     url |-> <<>>, user |-> NoUser, dirty |-> FALSE, destroy |-> FALSE,
     had |-> FALSE, userCalls |-> 0, answer |-> <<"none", NoJson>>,
     stats |-> <<"none", NoJson>>,
     ranHandler |-> FALSE, read |-> "none", html |-> <<>>, call |-> "none",
     now |-> 0, prev |-> 0, lastUpdate |-> 0, failed |-> FALSE, ret |-> <<>>,
     cached |-> <<>>, profile |-> NoUser, exchange |-> "none",
     proxyCalls |-> 0, proxied |-> <<"none", NoJson>>, pending |-> 0,
     cachedAt |-> 0, sent |-> 0, resp |-> NoResp]

Done(rq, resp) == [rq EXCEPT !.pc = "done", !.resp = resp, !.sent = @ + 1]

\* the session the cookie names, as the session middleware loads it
LoadSession(cookie) ==
    IF cookie \in SessionIds /\ store[cookie] # NoUser THEN cookie ELSE 0

InFlight(r) == req[r].pc \notin {"idle", "done"}

\* new sessions that will be saved when their response ends
NewPending ==
    Cardinality({x \in DOMAIN req :
        InFlight(x) /\ req[x].sid = 0 /\ (req[x].dirty \/ req[x].profile # NoUser)})

\* the slots without the request answered before: only the answer given
\* last is kept for inspection
Cleared == [x \in DOMAIN req |-> IF req[x].pc = "done" THEN Idle ELSE req[x]]

\* the end of a response that leaves a destroyed session in the store
FinishKeepsSession(r, rq) ==
    IF rq.dirty /\ rq.sid # 0
    THEN /\ store' = [store EXCEPT ![rq.sid] = rq.user]
         /\ req' = [Cleared EXCEPT ![r] = rq]
         /\ UNCHANGED nextSid
    ELSE IF rq.dirty
    THEN /\ store' = [store EXCEPT ![nextSid] = rq.user]
         /\ req' = [Cleared EXCEPT ![r] = [rq EXCEPT !.sid = nextSid]]
         /\ nextSid' = nextSid + 1
    ELSE /\ req' = [Cleared EXCEPT ![r] = rq]
         /\ UNCHANGED <<store, nextSid>>

\* the response ends: express-session saves a modified session (a new one
\* under a new id), destroy removes it from the store.  The answered
\* request stays in its slot until the next step of the server.
Finish(r, rq) ==
    IF rq.destroy
    THEN /\ store' = [s \in SessionIds |-> IF s = rq.sid THEN NoUser ELSE store[s]]
         /\ req' = [Cleared EXCEPT ![r] = rq]
         /\ UNCHANGED nextSid
    ELSE IF rq.dirty /\ rq.sid # 0
    THEN /\ store' = [store EXCEPT ![rq.sid] = rq.user]
         /\ req' = [Cleared EXCEPT ![r] = rq]
         /\ UNCHANGED nextSid
    ELSE IF rq.dirty
    THEN /\ store' = [store EXCEPT ![nextSid] = rq.user]
         /\ req' = [Cleared EXCEPT ![r] = [rq EXCEPT !.sid = nextSid]]
         /\ nextSid' = nextSid + 1
    ELSE /\ req' = [Cleared EXCEPT ![r] = rq]
         /\ UNCHANGED <<store, nextSid>>

\* the request goes on waiting, or its response ends
Step(r, rq) ==
    IF rq.pc = "done" THEN Finish(r, rq)
    ELSE /\ req' = [Cleared EXCEPT ![r] = rq]
         /\ UNCHANGED <<store, nextSid>>

\* requests take the lowest slot that holds no request in flight
FreeSlot(r) == ~InFlight(r) /\ \A x \in DOMAIN req : x < r => InFlight(x)

\* what an awaited axios call gives: a 2xx response with a body, or a throw
Upstream(bodies) ==
    {<<"ok", d>> : d \in bodies}
        \cup {<<o, NoJson>> : o \in {"timeout", "network", "status"}}

(***************************************************************************)
(* Dashboard variant: routes                                               *)
(***************************************************************************)
DashGated ==
    {"GET /dashboard", "GET /api/user", "GET /api/bot/stats",
     "POST /api/guild/:guildId/connect"}

\* the other routes it registers, and two paths it does not register
DashOpen == {"GET /health", "GET /logout", "GET /"}
DashUnknown == {"GET /api/guild/:guildId", "GET /api/login/:guildId"}

\* req.originalUrl without its query string
PathOf(route, gid) ==
    CASE route = "GET /dashboard" -> <<"/", "dashboard">>
      [] route = "GET /api/user" -> <<"/", "api", "/", "user">>
      [] route = "GET /api/bot/stats" -> <<"/", "api", "/", "bot", "/", "stats">>
      [] route = "POST /api/guild/:guildId/connect" ->
            <<"/", "api", "/", "guild", "/", gid, "/", "connect">>
      [] route = "GET /api/guild/:guildId" -> <<"/", "api", "/", "guild", "/", gid>>
      [] route = "GET /api/login/:guildId" -> <<"/", "api", "/", "login", "/", gid>>
      [] route = "GET /health" -> <<"/", "health">>
      [] route = "GET /logout" -> <<"/", "logout">>
      [] route = "GET /auth/discord/callback" ->
            <<"/", "auth", "/", "discord", "/", "callback">>
      [] OTHER -> <<"/">>

\* the handler of a gated route, up to its first await
dashHandler(rq) ==
    LET q == [rq EXCEPT !.ranHandler = TRUE]
    IN  CASE q.route = "GET /dashboard" -> [q EXCEPT !.pc = "readFile"]
          [] q.route = "GET /api/user" ->
                Done(q, JsonResp(200, [EmptyJson EXCEPT !.fields = {"success", "user"},
                                          !.success = TRUE, !.user = q.user]))
          [] q.route = "GET /api/bot/stats" ->
                [q EXCEPT !.pc = "awaitProxyStats", !.proxyCalls = @ + 1]
          [] q.route = "POST /api/guild/:guildId/connect" ->
                IF FindGuild(FilterManageable(q.user.guilds), q.gid) = NoGuild
                THEN Done(q, JsonResp(403, [EmptyJson EXCEPT
                        !.fields = {"success", "error"},
                        !.error = "No tienes permisos para administrar este servidor"]))
                ELSE [q EXCEPT !.pc = "awaitConnect", !.proxyCalls = @ + 1]

\* a gate that asks the main server even when the session holds a User
checkAuthAlwaysAsks(rq) == [rq EXCEPT !.pc = "awaitUser", !.userCalls = @ + 1]

\* checkAuth, up to its await
checkAuth(rq) ==
    IF rq.user # NoUser THEN dashHandler(rq)
    ELSE [rq EXCEPT !.pc = "awaitUser", !.userCalls = @ + 1]

\* response.data && response.data.success && response.data.user
UserCheckPasses(outcome, data) ==
    /\ outcome = "ok"
    /\ data # NoJson
    /\ "success" \in data.fields /\ data.success
    /\ "user" \in data.fields /\ data.user # NoUser

\* a gate that lets the request through without storing the user
checkAuthResumeNoStore(rq, outcome, data) ==
    IF UserCheckPasses(outcome, data) THEN dashHandler(rq)
    ELSE Done(rq, Redirect(LoginRedirect(rq.url)))

\* a gate that redirects with the raw URL
checkAuthResumeRawUrl(rq, outcome, data) ==
    IF UserCheckPasses(outcome, data)
    THEN dashHandler([rq EXCEPT !.user = data.user, !.dirty = TRUE])
    ELSE Done(rq, Redirect(LoginRedirectRaw(rq.url)))

\* checkAuth, from the answer of the main server on
checkAuthResume(rq, outcome, data) ==
    IF UserCheckPasses(outcome, data)
    THEN dashHandler([rq EXCEPT !.user = data.user, !.dirty = TRUE])
    ELSE Done(rq, Redirect(LoginRedirect(rq.url)))

ErrorPage == HtmlResp(500, "error", <<>>)

\* GET /dashboard after the stats call, without the inner try/catch
dashboardFinishNoCatch(rq, outcome, data) ==
    IF outcome # "ok" THEN Done(rq, ErrorPage)
    ELSE LET statsData == IF data # NoJson /\ "success" \in data.fields /\ data.success
                          THEN data.stats ELSE DefaultStats
         IN  IF ~statsData.present THEN Done(rq, ErrorPage)
             ELSE Done(rq, HtmlResp(200, "dashboard",
                                    renderDashboard(rq.user, rq.html, statsData)))

\* GET /dashboard without the outer try/catch: the TypeError of a stats
\* body without a stats object rejects the handler's promise, and no
\* response is sent
dashboardFinishUncaught(rq, outcome, data) ==
    LET n == Len(FilterManageable(rq.user.guilds))
        statsData ==
            IF outcome = "ok"
            THEN IF data # NoJson /\ "success" \in data.fields /\ data.success
                 THEN data.stats
                 ELSE DefaultStats
            ELSE [DefaultStats EXCEPT !.totalServers = n]
    IN  IF ~statsData.present
        THEN [rq EXCEPT !.pc = "rejected"]
        ELSE Done(rq, HtmlResp(200, "dashboard",
                               renderDashboard(rq.user, rq.html, statsData)))

\* GET /dashboard from the answer of the stats call on
dashboardFinish(rq, outcome, data) ==
    LET n == Len(FilterManageable(rq.user.guilds))
        statsData ==
            IF outcome = "ok"
            THEN IF data # NoJson /\ "success" \in data.fields /\ data.success
                 THEN data.stats                 \* undefined when the body has none
                 ELSE DefaultStats
            ELSE [DefaultStats EXCEPT !.totalServers = n]
    IN  IF ~statsData.present
        THEN Done(rq, ErrorPage)                 \* TypeError, caught at line 271
        ELSE Done(rq, HtmlResp(200, "dashboard",
                               renderDashboard(rq.user, rq.html, statsData)))

\* GET /api/bot/stats from the answer of the main server on
proxyStatsFinish(rq, outcome, data) ==
    IF outcome = "ok" THEN Done(rq, JsonResp(200, data))
    ELSE Done(rq, JsonResp(200, [EmptyJson EXCEPT !.fields = {"success", "stats"},
            !.success = TRUE,
            !.stats = [DefaultStats EXCEPT
                          !.totalServers = Len(FilterManageable(rq.user.guilds))]]))

\* POST /api/guild/:guildId/connect from the answer of the main server on
connectFinish(rq, outcome, data) ==
    IF outcome = "ok" THEN Done(rq, JsonResp(200, data))
    ELSE Done(rq, JsonResp(500, [EmptyJson EXCEPT !.fields = {"success", "error"},
                                    !.error = "Error al conectar el bot al servidor"]))

\* the routes without the gate, and the 404 handler
dashOpenRoute(rq) ==
    CASE rq.route = "GET /health" ->
            Done(rq, JsonResp(200, [EmptyJson EXCEPT !.fields =
                {"status", "service", "timestamp", "environment", "authenticated", "urls"}]))
      [] rq.route = "GET /logout" ->
            Done([rq EXCEPT !.destroy = TRUE], Redirect(<<MAIN_SERVER_URL, "/logout">>))
      [] rq.route = "GET /" ->
            IF rq.user # NoUser THEN Done(rq, Redirect(<<"/dashboard">>))
            ELSE Done(rq, Redirect(<<FRONTEND_URL, "/login">>))
      [] OTHER -> Done(rq, HtmlResp(404, "notfound", <<>>))

dashRoute(rq) ==
    IF rq.route \in DashGated THEN checkAuth(rq) ELSE dashOpenRoute(rq)

(***************************************************************************)
(* Dashboard variant: actions                                              *)
(***************************************************************************)
\* a request arrives: the session is loaded and the route runs to its
\* first await
DashReceive(r, cookie, route, gid, query) ==
    /\ variant = "dashboard"
    /\ FreeSlot(r)
    /\ LET sid == LoadSession(cookie)
       IN  Step(r, dashRoute([Idle EXCEPT
                !.pc = "recv", !.sid = sid, !.route = route,
                !.gid = gid, !.url = PathOf(route, gid) \o query,
                !.user = IF sid # 0 THEN store[sid] ELSE NoUser,
                !.had = sid # 0]))
    /\ UNCHANGED <<variant, authVars, escVars>>

\* the main server's /api/user answers, or the call fails
DashUserResponse(r, outcome, data) ==
    /\ variant = "dashboard"
    /\ req[r].pc = "awaitUser"
    /\ UserCheckPasses(outcome, data) => nextSid + NewPending <= MaxSessions
    /\ Step(r, checkAuthResume([req[r] EXCEPT !.answer = <<outcome, data>>],
                                outcome, data))
    /\ UNCHANGED <<variant, authVars, escVars>>

\* fs.readFile(dashboard.html) gives the template, or fails
DashReadFile(r, ok, template) ==
    /\ variant = "dashboard"
    /\ req[r].pc = "readFile"
    /\ Step(r, IF ok THEN [req[r] EXCEPT !.read = "ok", !.html = template,
                                          !.pc = "awaitStats"]
               ELSE Done([req[r] EXCEPT !.read = "failed"], ErrorPage))
    /\ UNCHANGED <<variant, authVars, escVars>>

\* the stats call of GET /dashboard answers, or fails
DashStatsResponse(r, outcome, data) ==
    /\ variant = "dashboard"
    /\ req[r].pc = "awaitStats"
    /\ Step(r, dashboardFinish([req[r] EXCEPT !.stats = <<outcome, data>>],
                                outcome, data))
    /\ UNCHANGED <<variant, authVars, escVars>>

\* the stats call of GET /api/bot/stats answers, or fails
DashProxyStatsResponse(r, outcome, data) ==
    /\ variant = "dashboard"
    /\ req[r].pc = "awaitProxyStats"
    /\ Step(r, proxyStatsFinish([req[r] EXCEPT !.proxied = <<outcome, data>>],
                                 outcome, data))
    /\ UNCHANGED <<variant, authVars, escVars>>

\* the connect call answers, or fails
DashConnectResponse(r, outcome, data) ==
    /\ variant = "dashboard"
    /\ req[r].pc = "awaitConnect"
    /\ Step(r, connectFinish([req[r] EXCEPT !.proxied = <<outcome, data>>],
                              outcome, data))
    /\ UNCHANGED <<variant, authVars, escVars>>

\* the MemoryStore drops a session whose maxAge has passed
Expire(sid) ==
    /\ store[sid] # NoUser
    /\ store' = [store EXCEPT ![sid] = NoUser]
    /\ req' = Cleared
    /\ UNCHANGED <<variant, nextSid, authVars, escVars>>

(***************************************************************************)
(* Auth backend: the bot-guild cache and the guild enrichment              *)
(***************************************************************************)
CacheTtl == 300000        \* (now - botCache.lastUpdate) < 300000
TickMs == CacheTtl \div 2  \* the step of the model's clock

RECURSIVE BitAnd(_, _)
\* a & b on non-negative 32-bit integers (ToInt32 leaves them as they are)
BitAnd(a, b) ==
    IF a = 0 \/ b = 0 THEN 0
    ELSE (a % 2) * (b % 2) + 2 * BitAnd(a \div 2, b \div 2)

\* the check with Discord's MANAGE_GUILD bit (0x20) in place of 0x8
isManageableManageGuild(permissions) == BitAnd(permissions, 32) = 32

\* (guild.permissions & 0x8) === 0x8
isManageable(permissions) == BitAnd(permissions, 8) = 8

\* `${FINAL_WEBSITE_URL}/login?guild_id=${id}&redirect=${encodeURIComponent('/dashboard')}`
GuildLoginUrl(id) ==
    <<FINAL_WEBSITE_URL, "/login", "?", "guild_id", "=", id, "&", "redirect", "=">>
        \o encodeURIComponent(<<"/", "dashboard">>)

\* botGuildIds.includes(id)
Includes(ids, id) == \E i \in 1..Len(ids) : ids[i] = id

Digit(c) == CASE c = "0" -> 0 [] c = "1" -> 1 [] c = "2" -> 2 [] c = "3" -> 3
              [] c = "4" -> 4 [] c = "5" -> 5 [] c = "6" -> 6 [] c = "7" -> 7
              [] c = "8" -> 8 [] c = "9" -> 9

RECURSIVE ToNumber(_)
\* the number a string of digits is coerced to
ToNumber(ds) ==
    IF ds = <<>> THEN 0 ELSE 10 * ToNumber(SubSeq(ds, 1, Len(ds) - 1)) + Digit(ds[Len(ds)])

\* the verify callback's enrichedProfile, given what getBotGuilds returned
enrichProfile(profile, botGuilds) ==
    [profile EXCEPT
        !.avatar_url =
            IF profile.avatar # ""
            THEN <<"https://cdn.discordapp.com/avatars/", profile.id, "/",
                   profile.avatar, ".png?size=256">>
            ELSE <<"https://cdn.discordapp.com/embed/avatars/",
                   ToString(ToNumber(profile.discriminator) % 5), ".png">>,
        !.guilds = [i \in 1..Len(profile.guilds) |->
            [profile.guilds[i] EXCEPT
                !.bot_installed = Includes(botGuilds, profile.guilds[i].id),
                !.manageable = isManageable(profile.guilds[i].permissions),
                !.login_url = GuildLoginUrl(profile.guilds[i].id)]]]

\* the freshness test with <= in place of <
cacheFreshInclusive(now) ==
    botCache.lastUpdate # 0 /\ (now - botCache.lastUpdate) <= CacheTtl

\* botCache.lastUpdate && (now - botCache.lastUpdate) < 300000
cacheFresh(now) ==
    botCache.lastUpdate # 0 /\ (now - botCache.lastUpdate) < CacheTtl

\* the getBotGuilds calls that await the answer of Discord
Awaiting == Cardinality({x \in DOMAIN req : req[x].pc = "awaitGuilds"})

\* getBotGuilds with a lock: while a request to Discord is awaited, a call
\* issues no second one and returns what the cache holds
getBotGuildsStartLocked(rq) ==
    LET c == [rq EXCEPT !.now = clock, !.prev = lastCallAt,
                        !.lastUpdate = botCache.lastUpdate,
                        !.pending = Awaiting]
    IN  IF cacheFresh(clock) \/ c.pending > 0
        THEN [c EXCEPT !.call = "cached", !.ret = botCache.guilds,
                       !.cached = botCache.guilds]
        ELSE [c EXCEPT !.call = "issued", !.pc = "awaitGuilds"]

\* getBotGuilds up to its await: the cached list is returned, or the request
\* to Discord is issued (DISCORD_TOKEN is set: without it the process exits
\* at startup)
getBotGuildsStart(rq) ==
    LET c == [rq EXCEPT !.now = clock, !.prev = lastCallAt,
                        !.lastUpdate = botCache.lastUpdate,
                        !.pending = Awaiting]
    IN  IF cacheFresh(clock)
        THEN [c EXCEPT !.call = "cached", !.ret = botCache.guilds,
                       !.cached = botCache.guilds]
        ELSE [c EXCEPT !.call = "issued", !.pc = "awaitGuilds"]

\* what getBotGuilds returns from its catch block
getBotGuildsCaught == <<>>

\* the cache after the answer of Discord
cacheAfter(rq, ok, data) ==
    IF ok THEN [guilds |-> data, lastUpdate |-> rq.now] ELSE botCache

\* what getBotGuilds returns after the answer of Discord
getBotGuildsReturn(rq, ok, data) == IF ok THEN data ELSE getBotGuildsCaught

(***************************************************************************)
(* Auth backend: routes                                                    *)
(***************************************************************************)
AuthGated ==
    {"GET /dashboard", "GET /api/user", "GET /api/bot/stats",
     "GET /api/guild/:guildId", "POST /api/guild/:guildId/connect",
     "GET /api/login/:guildId"}

AuthWithGuild ==
    {"GET /api/guild/:guildId", "POST /api/guild/:guildId/connect",
     "GET /api/login/:guildId"}

AuthOpen ==
    {"GET /", "GET /health", "GET /logout", "GET /api/stats", "GET /api/login-url",
     "GET /auth/discord", "GET /auth/discord/callback", "GET /unknown"}

NotFoundJson ==
    JsonResp(404, [EmptyJson EXCEPT !.fields = {"success", "error"},
                                    !.error = "Servidor no encontrado"])

\* the stats body of GET /api/bot/stats, given botCache.guilds
botStatsBody(rq, guilds) ==
    [EmptyJson EXCEPT !.fields = {"success", "stats"}, !.success = TRUE,
        !.stats = [present |-> TRUE, totalServers |-> Len(guilds),
                   manageableServers |-> Len(FilterManageable(rq.user.guilds)),
                   totalUsers |-> 0, uptime |-> 998, commandsUsed |-> 0]]

\* a stats handler that enriches the session's User again, with the list
\* it has just fetched
botStatsFinishRecompute(rq, guilds) ==
    Done([rq EXCEPT !.user = enrichProfile(rq.user, guilds), !.dirty = TRUE],
         JsonResp(200, botStatsBody(rq, guilds)))

\* GET /api/bot/stats after await getBotGuilds()
botStatsFinish(rq, guilds) == Done(rq, JsonResp(200, botStatsBody(rq, guilds)))

\* the verify callback after await getBotGuilds(), req.login and the
\* redirect of the callback route
verifyFinish(rq, botGuilds) ==
    Done([rq EXCEPT !.user = enrichProfile(rq.profile, botGuilds), !.dirty = TRUE],
         Redirect(<<FINAL_WEBSITE_URL, "/dashboard">>))

\* a body of GET /api/user that is req.user as it is
userBodyWhole(user) == user

\* the user object of GET /api/user: id, username, discriminator, avatar,
\* avatar_url and guilds of req.user
userBody(user) ==
    [NoUser EXCEPT !.id = user.id, !.username = user.username,
                   !.discriminator = user.discriminator, !.avatar = user.avatar,
                   !.avatar_url = user.avatar_url, !.guilds = user.guilds]

\* the handler of a gated route
authHandler(rq) ==
    LET q == [rq EXCEPT !.ranHandler = TRUE]
        userGuild == FindGuild(q.user.guilds, q.gid)
        login == [EmptyJson EXCEPT !.fields = {"success", "login_url"},
                     !.success = TRUE, !.login_url = GuildLoginUrl(q.gid)]
    IN  CASE q.route = "GET /dashboard" ->
                Done(q, Redirect(<<FINAL_WEBSITE_URL, "/dashboard">>))
          [] q.route = "GET /api/user" ->
                Done(q, JsonResp(200, [EmptyJson EXCEPT !.fields = {"success", "user"},
                    !.success = TRUE,
                    !.user = userBody(q.user)]))
          [] q.route = "GET /api/bot/stats" ->
                LET c == getBotGuildsStart(q)
                IN  IF c.call = "cached" THEN botStatsFinish(c, botCache.guilds) ELSE c
          [] q.route = "GET /api/guild/:guildId" ->
                IF userGuild = NoGuild THEN Done(q, NotFoundJson)
                ELSE Done(q, JsonResp(200, [EmptyJson EXCEPT
                        !.fields = {"success", "guild"}, !.success = TRUE,
                        !.guild = userGuild]))
          [] q.route = "POST /api/guild/:guildId/connect" ->
                IF userGuild = NoGuild THEN Done(q, NotFoundJson)
                ELSE IF ~userGuild.manageable
                THEN Done(q, JsonResp(403, [EmptyJson EXCEPT
                        !.fields = {"success", "error"},
                        !.error = "No tienes permisos en este servidor"]))
                ELSE Done(q, JsonResp(200, [login EXCEPT
                        !.fields = {"success", "message", "login_url"}]))
          [] q.route = "GET /api/login/:guildId" ->
                IF userGuild = NoGuild THEN Done(q, NotFoundJson)
                ELSE Done(q, JsonResp(200, login))

\* a gate that calls next() whatever req.isAuthenticated() says
isAuthenticatedOpen(rq) == authHandler(rq)

\* the isAuthenticated middleware
isAuthenticated(rq) ==
    IF rq.user # NoUser THEN authHandler(rq)
    ELSE Done(rq, Redirect(<<FINAL_WEBSITE_URL, "/login">>))

\* the routes without the gate, and the 404 handler
authOpenRoute(rq) ==
    CASE rq.route = "GET /" ->
            Done(rq, JsonResp(200, [EmptyJson EXCEPT !.fields =
                {"service", "status", "website", "api", "environment"}]))
      [] rq.route = "GET /health" ->
            Done(rq, JsonResp(200, [EmptyJson EXCEPT !.fields =
                {"status", "service", "authenticated", "timestamp", "environment",
                 "uptime", "urls"}]))
      [] rq.route = "GET /logout" ->
            Done([rq EXCEPT !.user = NoUser, !.destroy = TRUE],
                 Redirect(<<FINAL_WEBSITE_URL, "/login", "?", "success", "=", "logout">>))
      [] rq.route = "GET /api/stats" ->
            Done(rq, JsonResp(200, [EmptyJson EXCEPT
                !.fields = {"success", "stats", "timestamp"}, !.success = TRUE,
                !.stats = [NoStats EXCEPT !.present = TRUE,
                                          !.totalServers = Len(botCache.guilds)]]))
      [] rq.route = "GET /api/login-url" ->
            Done(rq, JsonResp(200, [EmptyJson EXCEPT
                !.fields = {"success", "login_url"}, !.success = TRUE,
                !.login_url = <<FINAL_WEBSITE_URL, "/login">>]))
      [] rq.route = "GET /auth/discord" ->
            Done(rq, Redirect(<<"https://discord.com/oauth2/authorize">>))
      [] rq.route = "GET /auth/discord/callback" -> [rq EXCEPT !.pc = "exchange"]
      [] OTHER ->
            Done(rq, JsonResp(404, [EmptyJson EXCEPT !.fields =
                {"error", "path", "available_routes"}, !.error = "Ruta no encontrada"]))

authRoute(rq) ==
    IF rq.route \in AuthGated THEN isAuthenticated(rq) ELSE authOpenRoute(rq)

\* the callback route from the end of passport's code exchange on:
\* "denied" is passport's fail() (the failureRedirect), "error" its error()
\* (the error handler), "ok" runs the verify callback
callbackResume(rq, outcome, profile) ==
    CASE outcome = "denied" ->
            Done(rq, Redirect(<<FINAL_WEBSITE_URL, "/login", "?", "error", "=",
                                "auth_failed">>))
      [] outcome = "error" ->
            Done(rq, JsonResp(500, [EmptyJson EXCEPT !.fields =
                {"error", "message", "timestamp"},
                !.error = "Error interno del servidor"]))
      [] outcome = "ok" ->
            LET c == getBotGuildsStart([rq EXCEPT !.profile = profile])
            IN  IF c.call = "cached" THEN verifyFinish(c, botCache.guilds) ELSE c

\* the request from the answer of Discord's guilds endpoint on
guildsResume(rq, ok, data) ==
    LET c == [rq EXCEPT !.failed = ~ok, !.ret = getBotGuildsReturn(rq, ok, data),
                        !.cached = botCache.guilds,
                        !.cachedAt = botCache.lastUpdate]
    IN  IF c.route = "GET /auth/discord/callback"
        THEN verifyFinish(c, c.ret)
        ELSE botStatsFinish(c, cacheAfter(c, ok, data).guilds)

(***************************************************************************)
(* Auth backend: actions                                                   *)
(***************************************************************************)
\* lastCallAt after a step that took a request to rq
CalledAt(rq) == IF rq.call # "none" THEN rq.now ELSE lastCallAt

\* a request arrives: the session is loaded and the route runs to its
\* first await
AuthReceive(r, cookie, route, gid, query) ==
    /\ variant = "auth"
    /\ FreeSlot(r)
    /\ LET sid == LoadSession(cookie)
           rq == [Idle EXCEPT
                    !.pc = "recv", !.sid = sid, !.route = route,
                    !.gid = gid, !.url = PathOf(route, gid) \o query,
                    !.user = IF sid # 0 THEN store[sid] ELSE NoUser,
                    !.had = sid # 0]
       IN  /\ Step(r, authRoute(rq))
           /\ lastCallAt' = CalledAt(authRoute(rq))
    /\ UNCHANGED <<variant, clock, botCache, escVars>>

\* passport ends the code exchange of the callback route
AuthExchange(r, outcome, profile) ==
    /\ variant = "auth"
    /\ req[r].pc = "exchange"
    /\ (outcome = "ok" /\ req[r].sid = 0) => nextSid + NewPending <= MaxSessions
    /\ Step(r, callbackResume([req[r] EXCEPT !.exchange = outcome], outcome, profile))
    /\ lastCallAt' = CalledAt(callbackResume(req[r], outcome, profile))
    /\ UNCHANGED <<variant, clock, botCache, escVars>>

\* Discord's guilds endpoint answers a getBotGuilds call, or the call fails
AuthGuildsResponse(r, ok, data) ==
    /\ variant = "auth"
    /\ req[r].pc = "awaitGuilds"
    /\ botCache' = cacheAfter(req[r], ok, data)
    /\ Step(r, guildsResume(req[r], ok, data))
    /\ UNCHANGED <<variant, clock, lastCallAt, escVars>>

\* time passes
Tick(maxTicks) ==
    /\ variant = "auth"
    /\ clock + TickMs <= 1 + maxTicks * TickMs
    /\ clock' = clock + TickMs
    /\ UNCHANGED <<srvVars, botCache, lastCallAt, escVars>>

(***************************************************************************)
(* Inputs                                                                  *)
(***************************************************************************)
Guild(id, name, icon, perms, manageable, installed, members) ==
    [id |-> id, name |-> name, icon |-> icon, permissions |-> perms,
     manageable |-> manageable, bot_installed |-> installed,
     login_url |-> <<>>, approximate_member_count |-> members]

\* a user as the main server's /api/user returns it
DashUser(id, username, discriminator, guilds) ==
    [NoUser EXCEPT !.id = id, !.username = username,
                   !.discriminator = discriminator,
                   !.avatar_url = <<"https://cdn.discordapp.com/avatars/a.png">>,
                   !.guilds = guilds]

UserA == DashUser("u1", <<"a", "<", "b">>, <<"0">>,
                  << Guild("g1", <<"A", "&", "B">>, "icon1", 8, TRUE, TRUE, 1500),
                     Guild("g2", <<"C">>, "", 0, FALSE, FALSE, 0) >>)
SpecUsers == {UserA}
GuildIds == {"g1", "g2", "g3"}

\* bodies the main server's /api/user may answer with
UserBodies(users) ==
    {NoJson,
     [EmptyJson EXCEPT !.fields = {"success", "error"}, !.error = "No autenticado"],
     [EmptyJson EXCEPT !.fields = {"success"}, !.success = TRUE]}
    \cup {[EmptyJson EXCEPT !.fields = {"success", "user"}, !.success = TRUE, !.user = u]
            : u \in users}
    \cup {[EmptyJson EXCEPT !.fields = {"success", "user"}, !.user = u] : u \in users}

SomeStats == [present |-> TRUE, totalServers |-> 12, totalUsers |-> 1540,
              commandsUsed |-> 2300000, uptime |-> 1000, manageableServers |-> 0]

\* bodies the main server's /api/bot/stats may answer with
StatsBodies ==
    {NoJson,
     [EmptyJson EXCEPT !.fields = {"success", "error"}, !.error = "fallo"],
     [EmptyJson EXCEPT !.fields = {"success"}, !.success = TRUE],
     [EmptyJson EXCEPT !.fields = {"success", "stats"}, !.success = TRUE,
                       !.stats = SomeStats]}

\* bodies the main server's connect route may answer with
ConnectBodies ==
    {NoJson,
     [EmptyJson EXCEPT !.fields = {"success", "login_url"}, !.success = TRUE,
                       !.login_url = <<"url">>],
     [EmptyJson EXCEPT !.fields = {"error"}, !.error = "fallo"]}

\* a profile as passport-discord hands it to the verify callback, with the
\* tokens of the code exchange
Profile(id, username, discriminator, avatar, guilds) ==
    [NoUser EXCEPT !.id = id, !.username = username,
                   !.discriminator = discriminator, !.avatar = avatar,
                   !.guilds = guilds, !.accessToken = "access-" \o id,
                   !.refreshToken = "refresh-" \o id]

ProfileA == Profile("u1", <<"a", "<", "b">>, <<"1", "2", "3", "4">>, "",
                    << Guild("g1", <<"A", "&", "B">>, "icon1", 8, FALSE, FALSE, 0),
                       Guild("g2", <<"C">>, "", 32, FALSE, FALSE, 0) >>)

SpecProfiles == {ProfileA}

\* permission bitmasks of the enrichment specification
Perms == {0, 7, 8, 9, 16, 32, 40, 2147483639, 2147483647}

EnrichProfiles ==
    {Profile("u1", <<"a">>, <<"0">>, "av",
             << Guild("g1", <<"A">>, "", p, FALSE, FALSE, 0),
                Guild("g2", <<"B">>, "", q, FALSE, FALSE, 0) >>)
        : p \in Perms, q \in {0, 8}}

\* lists Discord's guilds endpoint may answer with (the ids of the guilds)
BotGuildLists == {<<>>, <<"g1">>, <<"g2", "g3">>}

\* query strings of the requests
Queries == {<<"?", "x", "=", "1", "&", "y", "=", "%", "2", "F">>}

SpecTemplates ==
    { <<"<h1>", "{{USERNAME}}", "#", "{{DISCRIMINATOR}}", "{{AVATAR_URL}}",
        "{{SERVER_COUNT}}", "{{SERVERS_HTML}}", "{{TOTAL_SERVERS}}",
        "{{TOTAL_USERS}}", "{{COMMANDS_USED}}", "{{UPTIME}}", "</h1>">> }

(***************************************************************************)
(* Specifications                                                          *)
(***************************************************************************)
ServerInit(v, slots) ==
    /\ variant = v
    /\ store = [s \in SessionIds |-> NoUser]
    /\ nextSid = 1
    /\ req = [r \in 1..slots |-> Idle]
    /\ clock = 1
    /\ botCache = [guilds |-> <<>>, lastUpdate |-> 0]
    /\ lastCallAt = 0

EscIdle == escIn = <<>> /\ escOut = NotYet

\* the dashboard variant, with users, templates and query strings drawn
\* from the given sets
DashNext(users, templates, queries) ==
    \/ \E r \in DOMAIN req, c \in 0..(nextSid - 1) :
          \/ \E route \in DashGated \ {"POST /api/guild/:guildId/connect"} :
                DashReceive(r, c, route, "", <<>>)
          \/ \E q \in queries : DashReceive(r, c, "GET /dashboard", "", q)
          \/ \E gid \in GuildIds :
                DashReceive(r, c, "POST /api/guild/:guildId/connect", gid, <<>>)
          \/ \E route \in DashOpen : DashReceive(r, c, route, "", <<>>)
          \/ \E route \in DashUnknown : DashReceive(r, c, route, "g1", <<>>)
    \/ \E r \in DOMAIN req, res \in Upstream(UserBodies(users)) :
          DashUserResponse(r, res[1], res[2])
    \/ \E r \in DOMAIN req, t \in templates : DashReadFile(r, TRUE, t)
    \/ \E r \in DOMAIN req : DashReadFile(r, FALSE, <<>>)
    \/ \E r \in DOMAIN req, res \in Upstream(StatsBodies) :
          DashStatsResponse(r, res[1], res[2])
    \/ \E r \in DOMAIN req, res \in Upstream(StatsBodies) :
          DashProxyStatsResponse(r, res[1], res[2])
    \/ \E r \in DOMAIN req, res \in Upstream(ConnectBodies) :
          DashConnectResponse(r, res[1], res[2])
    \/ \E s \in SessionIds : Expire(s)

\* the auth backend: requests arrive
AuthArrivals(routes) ==
    \E r \in DOMAIN req, c \in 0..(nextSid - 1), route \in routes \ AuthWithGuild :
        AuthReceive(r, c, route, "", <<>>)

AuthGuildArrivals ==
    \E r \in DOMAIN req, c \in 0..(nextSid - 1), route \in AuthWithGuild,
       gid \in GuildIds : AuthReceive(r, c, route, gid, <<>>)

\* the code exchange of a callback succeeds, with one of the profiles
AuthLogins(profiles) ==
    \E r \in DOMAIN req, p \in profiles : AuthExchange(r, "ok", p)

AuthFailures ==
    \E r \in DOMAIN req, o \in {"denied", "error"} : AuthExchange(r, o, NoUser)

AuthGuildsAnswers(lists) ==
    \/ \E r \in DOMAIN req, data \in lists : AuthGuildsResponse(r, TRUE, data)
    \/ \E r \in DOMAIN req : AuthGuildsResponse(r, FALSE, <<>>)

\* the list Discord answers with, when it answers
SpecGuildLists == {<<"g1">>}

\* one of the two programs, serving requests
Init ==
    /\ \E v \in {"dashboard", "auth"} : ServerInit(v, MaxSlots)
    /\ EscIdle

Next ==
    \/ DashNext(SpecUsers, SpecTemplates, Queries)
    \/ AuthArrivals(AuthGated \cup AuthOpen)
    \/ AuthGuildArrivals
    \/ AuthLogins(SpecProfiles)
    \/ AuthFailures
    \/ AuthGuildsAnswers(SpecGuildLists)

Spec == Init /\ [][Next]_vars

\* the auth backend's getBotGuilds, called by the verify callback and by
\* GET /api/bot/stats, as time passes
CacheRoutes == {"GET /auth/discord/callback", "GET /api/bot/stats"}

\* the lists Discord answers with in the cache specification
CacheGuildLists == {<<"g1">>, <<"g2">>}

\* a profile without guilds: the user of the session is the same whatever
\* getBotGuilds returned
CacheProfiles == {Profile("u1", <<"a">>, <<"0">>, "av", <<>>)}

CacheInit == ServerInit("auth", MaxSlots) /\ EscIdle

\* the requests of one browser, which sends the cookie it got last
CacheArrivals ==
    \E r \in DOMAIN req, route \in CacheRoutes :
        AuthReceive(r, nextSid - 1, route, "", <<>>)

CacheNext ==
    \/ CacheArrivals
    \/ AuthLogins(CacheProfiles)
    \/ AuthGuildsAnswers(CacheGuildLists)
    \/ Tick(MaxTicks)

SpecCache == CacheInit /\ [][CacheNext]_vars

\* getBotGuilds with calls that overlap: one request more may be in flight
\* than in the other specifications
RaceInit == ServerInit("auth", MaxSlots + 1) /\ EscIdle

\* one browser logs in, and then asks for the stats, also while earlier
\* requests of it are still being served
RaceArrivals ==
    \/ /\ nextSid = 1
       /\ \A x \in DOMAIN req : ~InFlight(x)
       /\ \E r \in DOMAIN req : AuthReceive(r, 0, "GET /auth/discord/callback", "", <<>>)
    \/ /\ nextSid > 1
       /\ \E r \in DOMAIN req : AuthReceive(r, 1, "GET /api/bot/stats", "", <<>>)

RaceNext ==
    \/ RaceArrivals
    \/ AuthLogins(CacheProfiles)
    \/ AuthGuildsAnswers(SpecGuildLists)
    \/ Tick(MaxTicks)

SpecRace == RaceInit /\ [][RaceNext]_vars

\* the verify callback on profiles with many permission bitmasks: one
\* browser logs in again and again, with the cookie of its session
EnrichInit == ServerInit("auth", MaxSlots) /\ EscIdle

EnrichArrival == AuthReceive(1, nextSid - 1, "GET /auth/discord/callback", "", <<>>)

EnrichNext ==
    \/ EnrichArrival
    \/ AuthLogins(EnrichProfiles)
    \/ AuthGuildsAnswers(BotGuildLists)

SpecEnrich == EnrichInit /\ [][EnrichNext]_vars

\* GET /dashboard for a browser without a session, with many users and
\* templates: the characters of a username, among them the ones escapeHtml
\* replaces, the $ of a replacement pattern and a placeholder
NameChars == {"<", "&", "'", "$", "{{UPTIME}}"}

RenderGuilds ==
    {<<>>,
     << Guild("g1", <<"<">>, "icon1", 8, TRUE, TRUE, 1500),
        Guild("g2", <<"\"">>, "", 0, FALSE, FALSE, 0) >>,
     << Guild("g1", <<"$", BACKTICK>>, "", 8, TRUE, FALSE, 0) >>,
     << Guild("g1", <<"&", "{{USERNAME}}">>, "icon1", 8, TRUE, TRUE, 12),
        Guild("g3", <<">", "'">>, "", 8, TRUE, FALSE, 0) >>}

RenderUsers ==
    {DashUser("u1", n, d, g) :
        n \in StringsUpTo(NameChars, MaxNameLen),
        d \in {<<>>, <<">">>, <<"$", BACKTICK>>, <<"{{AVATAR_URL}}">>},
        g \in RenderGuilds}

RenderTemplates ==
    SpecTemplates \cup
    { <<"<p title='", "{{USERNAME}}", "'>", "{{SERVERS_HTML}}", "{{USERNAME}}",
        "{{DISCRIMINATOR}}", "{{TOTAL_USERS}}", "{{COMMANDS_USED}}",
        "{{TOTAL_SERVERS}}", "{{UPTIME}}", "</p>">> }

RenderInit == ServerInit("dashboard", MaxSlots) /\ EscIdle

\* the browser asks for the dashboard until it is logged in
RenderArrival ==
    /\ nextSid = 1
    /\ DashReceive(1, 0, "GET /dashboard", "", <<>>)

RenderNext ==
    \/ RenderArrival
    \/ \E res \in Upstream(UserBodies(RenderUsers)) : DashUserResponse(1, res[1], res[2])
    \/ \E t \in RenderTemplates : DashReadFile(1, TRUE, t)
    \/ \E res \in Upstream(StatsBodies) : DashStatsResponse(1, res[1], res[2])

SpecRender == RenderInit /\ [][RenderNext]_vars

\* the characters escapeHtml is applied to in the escape specification
EscChars == {"&", "<", ">", "\"", "'", "l", "t", ";"}

EscInit ==
    /\ escIn \in StringsUpTo(EscChars, MaxEscLen)
    /\ escOut = NotYet
    /\ ServerInit("dashboard", MaxSlots)

\* one call escapeHtml(escIn)
EscapeCall ==
    /\ escOut = NotYet
    /\ escOut' = escapeHtml(escIn)
    /\ UNCHANGED <<escIn, srvVars, authVars>>

EscNext == EscapeCall

SpecEscape == EscInit /\ [][EscNext]_vars

(***************************************************************************)
(* C1 - C4: the gates                                                      *)
(***************************************************************************)
\* the requests to the dashboard variant's gated routes, in the gate or past it
DashGatedRequests ==
    {r \in DOMAIN req :
        variant = "dashboard" /\ req[r].pc # "idle" /\ req[r].route \in DashGated}

\* the answer of the main server's /api/user reports success and has a user
Passed(answer) ==
    /\ answer[1] = "ok"
    /\ {"success", "user"} \subseteq answer[2].fields
    /\ answer[2].success

\* the delegated check was made and failed: a timeout, a network error, an
\* error status, a body that reports no success or has no user
Failed(answer) == answer[1] # "none" /\ ~Passed(answer)

\* the location is the login page of the frontend
IsLoginPage(loc) ==
    /\ Len(loc) >= 2
    /\ loc[1] \in {FRONTEND_URL, FINAL_WEBSITE_URL}
    /\ loc[2] = "/login"

\* C1: in the dashboard variant, a request to a gated route whose session
\* held a User when it arrived reaches the route handler, and no GET to the
\* main server's /api/user is made for it, whatever requests came before.
C1_SessionUserSkipsCheck ==
    \A r \in DashGatedRequests :
        req[r].had =>
            /\ req[r].ranHandler
            /\ req[r].userCalls = 0
            /\ req[r].answer[1] = "none"

\* a later request on a session that an earlier request logged in has been
\* served the dashboard without a call to /api/user
C1_Witness ==
    \E r \in DashGatedRequests :
        /\ req[r].had
        /\ req[r].pc = "done"
        /\ req[r].route = "GET /dashboard"
        /\ req[r].resp.status = 200
        /\ req[r].userCalls = 0

\* C2: when the session held no User and /api/user answered with success
\* and a user, that user is the session's User when the handler runs (the
\* handler of GET /api/user answers with it), the handler runs, no redirect
\* is sent, and the session saved at the end of the response holds it.
C2_UserStoredBeforeHandler ==
    \A r \in DashGatedRequests :
        (~req[r].had /\ Passed(req[r].answer)) =>
            /\ req[r].user = req[r].answer[2].user
            /\ req[r].ranHandler
            /\ req[r].resp.kind # "redirect"
            /\ req[r].pc = "done" =>
                  /\ req[r].sid # 0
                  /\ store[req[r].sid] = req[r].answer[2].user
            /\ (req[r].pc = "done" /\ req[r].route = "GET /api/user") =>
                  req[r].resp.json.user = req[r].answer[2].user

\* GET /api/user on a new session has answered with the user the main
\* server gave
C2_Witness ==
    \E r \in DashGatedRequests :
        /\ ~req[r].had
        /\ Passed(req[r].answer)
        /\ req[r].pc = "done"
        /\ req[r].route = "GET /api/user"
        /\ req[r].resp.status = 200
        /\ req[r].resp.json.user = UserA
        /\ store[req[r].sid] = UserA

\* C3: when the session held no User and the one delegated check failed,
\* the response is a redirect to the frontend's login URL whose redirect
\* parameter decodes to the requested URL, the handler did not run, the
\* session holds no User and /api/user was asked once.
C3_FailedCheckRedirects ==
    \A r \in DashGatedRequests :
        (~req[r].had /\ Failed(req[r].answer)) =>
            /\ req[r].pc = "done"
            /\ req[r].resp.kind = "redirect"
            /\ req[r].resp.status = 302
            /\ req[r].resp.location[1] = FRONTEND_URL
            /\ req[r].resp.location[2] = "/login"
            /\ RedirectParam(req[r].resp.location) = req[r].url
            /\ ~req[r].ranHandler
            /\ req[r].user = NoUser
            /\ ~req[r].dirty
            /\ req[r].sid = 0
            /\ req[r].userCalls = 1

\* a request with a query string has been redirected after a timeout, and
\* another after a body without a user
C3_Witness ==
    \E r \in DashGatedRequests :
        /\ ~req[r].had
        /\ req[r].answer[1] \in {"timeout", "ok"}
        /\ Failed(req[r].answer)
        /\ req[r].resp.kind = "redirect"
        /\ Len(req[r].url) > 6
        /\ RedirectParam(req[r].resp.location) = req[r].url

\* the routes a variant registers behind its gate
GatedRoutes == IF variant = "dashboard" THEN DashGated ELSE AuthGated

\* the request is authenticated: its session held a User (req.isAuthenticated()
\* in the auth backend), or the main server has just given one (dashboard)
IsAuthenticatedRequest(rq) ==
    rq.had \/ (variant = "dashboard" /\ Passed(rq.answer))

Callers == {r \in DOMAIN req : req[r].call # "none"}

\* the call of r came within the TTL of the call before it
WithinWindow(r) == req[r].prev # 0 /\ req[r].now - req[r].prev < CacheTtl

\* the call of r came a TTL or more after the call before it
AfterWindow(r) == req[r].prev # 0 /\ req[r].now - req[r].prev >= CacheTtl

\* C5 as stated: the second of two calls within 300000 ms of each other
\* issues no request to Discord and returns the cached list; a call made
\* 300000 ms or more after the previous one issues a request.
C5_AsStated ==
    \A r \in Callers :
        /\ WithinWindow(r) => req[r].call = "cached"
        /\ AfterWindow(r) => req[r].call = "issued"

\* C5, amended: a call issues no request to Discord exactly when a refresh
\* has succeeded and the call comes less than 300000 ms after the start of
\* the last successful refresh (botCache.lastUpdate); it then returns the
\* cached list and leaves the cache as it is.  A call made 300000 ms or
\* more after the previous call always issues a request.
C5_CacheWindow ==
    \A r \in Callers :
        /\ req[r].call = "cached" <=>
              (req[r].lastUpdate # 0 /\ req[r].now - req[r].lastUpdate < CacheTtl)
        /\ (req[r].call = "cached" /\ req[r].pc = "done") =>
              /\ req[r].ret = botCache.guilds
              /\ botCache.lastUpdate = req[r].lastUpdate
        /\ AfterWindow(r) => req[r].call = "issued"

\* a call half a TTL after the refresh returned the stored list without a
\* request, and a call a whole TTL after the refresh has issued one
C5_Witness ==
    /\ \E r \in Callers :
          /\ req[r].call = "issued"
          /\ req[r].lastUpdate # 0
          /\ req[r].now - req[r].lastUpdate = CacheTtl
          /\ req[r].now - req[r].prev = TickMs
    /\ botCache.guilds # <<>>

\* a call within the TTL of a refresh has been answered from the cache
C5_CachedWitness ==
    \E r \in Callers :
        /\ req[r].call = "cached"
        /\ req[r].pc = "done"
        /\ WithinWindow(r)
        /\ req[r].ret # <<>>

\* C6 as stated: a call whose request to Discord failed returns the list
\* the cache held (the list of the last successful refresh, or the empty
\* list).
C6_FailureReturnsCached ==
    \A r \in Callers :
        (req[r].pc = "done" /\ req[r].call = "issued" /\ req[r].failed) =>
            req[r].ret = req[r].cached

\* what does hold: the failed call raises nothing to its caller, returns
\* the empty list and leaves the cache as it is
C6_FailureReturnsEmpty ==
    \A r \in Callers :
        (req[r].pc = "done" /\ req[r].call = "issued" /\ req[r].failed) =>
            /\ req[r].ret = <<>>
            /\ botCache.guilds = req[r].cached
            /\ req[r].resp.status \in {200, 302}

\* a refresh has failed while the cache held a list
C6_Witness ==
    \E r \in Callers :
        /\ req[r].pc = "done"
        /\ req[r].call = "issued"
        /\ req[r].failed
        /\ req[r].cached # <<>>

(***************************************************************************)
(* C7: the manageable flag                                                 *)
(***************************************************************************)
\* the callback requests whose verify callback has run
Verified ==
    {r \in DOMAIN req :
        /\ req[r].pc = "done"
        /\ req[r].route = "GET /auth/discord/callback"
        /\ req[r].profile # NoUser}

\* bit 3 (0x8) of a non-negative bitmask is set
AdminBit(P) == (P \div 8) % 2 = 1

\* C7: for every guild of the profile the verify callback handled, with
\* permission bitmask P, the enriched guild is manageable exactly when bit
\* 0x8 of P is set, whatever the other bits of P and whatever getBotGuilds
\* returned; the user of the session is that enriched profile.
C7_ManageableIsAdminBit ==
    \A r \in Verified :
        /\ Len(req[r].user.guilds) = Len(req[r].profile.guilds)
        /\ \A i \in 1..Len(req[r].profile.guilds) :
              /\ req[r].user.guilds[i].id = req[r].profile.guilds[i].id
              /\ req[r].user.guilds[i].manageable
                    <=> AdminBit(req[r].profile.guilds[i].permissions)
        /\ store[req[r].sid] = req[r].user

\* a guild with every bit but 0x8 set, where the bot is installed, is not
\* manageable, next to a guild with only 0x8 set, which is
C7_Witness ==
    \E r \in Verified :
        /\ req[r].profile.guilds[1].permissions = 2147483639
        /\ req[r].user.guilds[1].bot_installed
        /\ ~req[r].user.guilds[1].manageable
        /\ req[r].profile.guilds[2].permissions = 8
        /\ ~req[r].user.guilds[2].bot_installed
        /\ req[r].user.guilds[2].manageable

(***************************************************************************)
(* C8                                                                      *)
(***************************************************************************)
Entities == {AMP, LT, GT, QUOT, APOS}

EntityChar(e) ==
    CASE e = AMP  -> "&"
      [] e = LT   -> "<"
      [] e = GT   -> ">"
      [] e = QUOT -> "\""
      [] e = APOS -> "'"

RECURSIVE Unescape(_)
\* what an HTML parser reads back from s: each of the five entities is one
\* character, any other character is itself
Unescape(s) ==
    IF s = <<>> THEN <<>>
    ELSE IF \E e \in Entities : HasAt(s, 1, e)
         THEN LET e == CHOOSE x \in Entities : HasAt(s, 1, x)
              IN  <<EntityChar(e)>> \o Unescape(SubSeq(s, Len(e) + 1, Len(s)))
         ELSE <<Head(s)>> \o Unescape(Tail(s))

\* C8: the output of escapeHtml holds no < > " ' at all, every & of the
\* output starts one of the five entities, and these entities are exactly
\* the escaped characters of the input (reading the output back gives the
\* input, so an & of the input cannot forge an entity).
C8_EscapeSafe ==
    escOut # NotYet =>
        /\ \A i \in 1..Len(escOut) :
              /\ escOut[i] \notin {"<", ">", "\"", "'"}
              /\ escOut[i] = "&" => \E e \in Entities : HasAt(escOut, i, e)
        /\ Unescape(escOut) = escIn

\* an input that spells an entity has been escaped
C8_Witness ==
    /\ escIn = <<"&", "l", "t", ";">>
    /\ escOut = <<"&", "a", "m", "p", ";", "l", "t", ";">>

(***************************************************************************)
(* C9, C10: the rendered dashboard                                         *)
(***************************************************************************)
\* the requests answered with the rendered dashboard
Rendered ==
    {r \in DOMAIN req :
        /\ req[r].pc = "done"
        /\ req[r].route = "GET /dashboard"
        /\ req[r].resp.kind = "html"
        /\ req[r].resp.page = "dashboard"}

\* where the user-controlled strings of the claim come from
UserSources == {"username", "discriminator", "guildname"}

\* position i of the document starts entity e, all of it from one source
EntityAt(doc, i, e) ==
    /\ HasAt(Untag(doc), i, e)
    /\ \A k \in i..(i + Len(e) - 1) : doc[k].src = doc[i].src

\* C9: in the document of a successful render, no character that comes
\* from the username, the discriminator or a guild name is a raw < > " or ',
\* and each & that comes from them starts one of the five entities of
\* escapeHtml: these strings reach the document only as escaped, through
\* the placeholder replacements and through the server cards.
C9_NoRawUserStrings ==
    \A r \in Rendered :
        LET doc == req[r].resp.html
        IN  \A i \in 1..Len(doc) :
                doc[i].src \in UserSources =>
                    /\ doc[i].ch \notin {"<", ">", "\"", "'"}
                    /\ doc[i].ch = "&" => \E e \in Entities : EntityAt(doc, i, e)

\* a user named <& with a guild named < has been rendered: the document
\* holds the escaped name from the username and from the guild name
C9_Witness ==
    \E r \in Rendered :
        LET doc == req[r].resp.html
        IN  /\ req[r].user.username = <<"<", "&">>
            /\ \E i \in 1..Len(doc) : doc[i].src = "username" /\ EntityAt(doc, i, LT)
            /\ \E i \in 1..Len(doc) : doc[i].src = "username" /\ EntityAt(doc, i, AMP)
            /\ \E i \in 1..Len(doc) : doc[i].src = "guildname" /\ EntityAt(doc, i, LT)

\* the stats call of the request failed: it threw, or its body reports no
\* success
StatsFailed(rq) ==
    /\ rq.stats[1] # "none"
    /\ \/ rq.stats[1] # "ok"
       \/ "success" \notin rq.stats[2].fields
       \/ ~rq.stats[2].success

\* the number of the user's manageable guilds, as the page shows it
ManageableCount(user) ==
    ToString(Cardinality({i \in 1..Len(user.guilds) : user.guilds[i].manageable}))

\* the values the document holds for a placeholder
Values(doc, key) == {doc[i].ch : i \in {k \in 1..Len(doc) : doc[k].src = key}}

\* C10: when the stats call of GET /dashboard fails (a timeout, a network
\* error, an error status or a body that reports no success), the
\* dashboard is sent with status 200 and the values substituted are 0 for
\* the total users, 0 for the commands used, 99.8 for the uptime and the
\* number of the user's manageable guilds for the total servers; no stats
\* placeholder is left in the document.
C10_StatsFailureDefaults ==
    \A r \in DOMAIN req :
        (req[r].pc = "done" /\ req[r].route = "GET /dashboard" /\ StatsFailed(req[r])) =>
            LET doc == req[r].resp.html
            IN  /\ r \in Rendered
                /\ req[r].resp.status = 200
                /\ Values(doc, "{{TOTAL_USERS}}") = {"0"}
                /\ Values(doc, "{{COMMANDS_USED}}") = {"0"}
                /\ Values(doc, "{{UPTIME}}") = {"99.8"}
                /\ Values(doc, "{{TOTAL_SERVERS}}") = {ManageableCount(req[r].user)}
                /\ \A i \in 1..Len(doc) :
                      doc[i].ch \notin {"{{TOTAL_USERS}}", "{{COMMANDS_USED}}",
                                        "{{UPTIME}}", "{{TOTAL_SERVERS}}"}

\* the dashboard of a user with two manageable guilds has been rendered
\* after a timeout of the stats call
C10_Witness ==
    \E r \in Rendered :
        /\ req[r].stats[1] = "timeout"
        /\ req[r].resp.status = 200
        /\ ManageableCount(req[r].user) = "2"
        /\ Values(req[r].resp.html, "{{TOTAL_SERVERS}}") = {"2"}
        /\ Values(req[r].resp.html, "{{UPTIME}}") = {"99.8"}

(***************************************************************************)
(* C11: exceptions of GET /dashboard                                       *)
(***************************************************************************)
\* the handler of the request raised an exception: the template could not
\* be read, or the stats body reports success and carries no stats object
\* (statsData is undefined and statsData.totalServers throws)
Threw(rq) ==
    \/ rq.read = "failed"
    \/ /\ rq.stats[1] = "ok"
       /\ "success" \in rq.stats[2].fields /\ rq.stats[2].success
       /\ "stats" \notin rq.stats[2].fields

\* C11: an authenticated GET /dashboard whose handler raised an exception
\* has been answered, with one response, the static error page with status
\* 500, and the server can take a request after it.
C11_ExceptionsCaught ==
    \A r \in DashGatedRequests :
        (req[r].route = "GET /dashboard" /\ req[r].ranHandler /\ Threw(req[r])) =>
            /\ req[r].pc = "done"
            /\ req[r].sent = 1
            /\ req[r].resp = ErrorPage
            /\ req[r].resp.status = 500
            /\ \E x \in DOMAIN req : ENABLED DashReceive(x, 0, "GET /health", "", <<>>)

\* the error page has been sent after a stats body that reports success
\* without a stats object
C11_Witness ==
    \E r \in DashGatedRequests :
        /\ req[r].pc = "done"
        /\ req[r].route = "GET /dashboard"
        /\ req[r].read = "ok"
        /\ req[r].stats[1] = "ok"
        /\ req[r].stats[2].success
        /\ "stats" \notin req[r].stats[2].fields
        /\ req[r].resp = ErrorPage
        /\ req[r].sent = 1

(***************************************************************************)
(* C12: the rejections of the connect route                                *)
(***************************************************************************)
\* the connect requests of authenticated users that have been answered
ConnectAnswered ==
    {r \in DOMAIN req :
        /\ req[r].pc = "done"
        /\ req[r].route = "POST /api/guild/:guildId/connect"
        /\ req[r].ranHandler}

\* the guild of the user's list the request names, or NoGuild
Named(rq) == FindGuild(rq.user.guilds, rq.gid)

\* the request was turned down without a call to the main server and
\* without a login_url
TurnedDown(rq) ==
    /\ rq.proxyCalls = 0
    /\ rq.proxied[1] = "none"
    /\ "login_url" \notin rq.resp.json.fields

\* C12 as stated: in both variants a connect request for a guild absent
\* from the user's list is answered with 404, one for a guild of the list
\* that is not manageable with 403 JSON, and neither is proxied nor given
\* a login_url.
C12_ConnectRejections ==
    \A r \in ConnectAnswered :
        /\ Named(req[r]) = NoGuild =>
              /\ req[r].resp.status = 404
              /\ TurnedDown(req[r])
        /\ (Named(req[r]) # NoGuild /\ ~Named(req[r]).manageable) =>
              /\ req[r].resp.status = 403
              /\ req[r].resp.kind = "json"
              /\ TurnedDown(req[r])

\* what does hold: the guild that is not manageable gets 403 JSON in both
\* variants, the absent guild 404 in the auth backend and 403 in the
\* dashboard variant, and neither is proxied nor given a login_url
C12_RejectionsByVariant ==
    \A r \in ConnectAnswered :
        /\ Named(req[r]) = NoGuild =>
              /\ req[r].resp.status = IF variant = "auth" THEN 404 ELSE 403
              /\ req[r].resp.kind = "json"
              /\ TurnedDown(req[r])
        /\ (Named(req[r]) # NoGuild /\ ~Named(req[r]).manageable) =>
              /\ req[r].resp.status = 403
              /\ req[r].resp.kind = "json"
              /\ TurnedDown(req[r])

\* the dashboard variant has answered a connect request for a guild that
\* is not in the user's list
C12_Witness ==
    \E r \in ConnectAnswered :
        /\ variant = "dashboard"
        /\ req[r].gid = "g3"
        /\ Named(req[r]) = NoGuild
        /\ req[r].resp.status = 403
        /\ TurnedDown(req[r])

(***************************************************************************)
(* C13: the OAuth callback                                                 *)
(***************************************************************************)
\* the callback requests passport has finished with
Exchanged ==
    {r \in DOMAIN req :
        /\ variant = "auth"
        /\ req[r].pc = "done"
        /\ req[r].route = "GET /auth/discord/callback"}

AuthFailedRedirect ==
    Redirect(<<FINAL_WEBSITE_URL, "/login", "?", "error", "=", "auth_failed">>)

\* the exchange succeeded: the enriched profile, with the three derived
\* fields on every guild, is the session's User, and the response is the
\* redirect to the frontend's dashboard
LoggedIn(rq) ==
    /\ rq.user = enrichProfile(rq.profile, rq.ret)
    /\ \A i \in 1..Len(rq.user.guilds) :
          /\ rq.user.guilds[i].login_url = GuildLoginUrl(rq.user.guilds[i].id)
          /\ rq.user.guilds[i].manageable
                <=> isManageable(rq.profile.guilds[i].permissions)
          /\ rq.user.guilds[i].bot_installed
                <=> Includes(rq.ret, rq.user.guilds[i].id)
    /\ rq.sid \in SessionIds
    /\ store[rq.sid] = rq.user
    /\ rq.resp = Redirect(<<FINAL_WEBSITE_URL, "/dashboard">>)
    /\ rq.sent = 1

\* the request left its session without a User
StaysUnauthenticated(rq) ==
    /\ rq.user = NoUser
    /\ ~rq.dirty
    /\ rq.sid = 0
    /\ rq.sent = 1

\* C13 as stated: a callback whose exchange succeeded has the enriched
\* profile as the session's User and is redirected to the dashboard; a
\* callback whose exchange did not succeed is redirected to the login page
\* with error=auth_failed and its session stays unauthenticated.
C13_CallbackOutcomes ==
    \A r \in Exchanged :
        /\ req[r].exchange = "ok" => LoggedIn(req[r])
        /\ (req[r].exchange # "ok" /\ ~req[r].had) =>
              /\ req[r].resp = AuthFailedRedirect
              /\ StaysUnauthenticated(req[r])

\* what does hold: the success case as stated; a failure passport reports
\* with fail() is redirected to the login page with error=auth_failed, one
\* it reports with error() is answered by the error handler with a 500
\* JSON body; the session stays unauthenticated in both
C13_CallbackByOutcome ==
    \A r \in Exchanged :
        /\ req[r].exchange = "ok" => LoggedIn(req[r])
        /\ (req[r].exchange = "denied" /\ ~req[r].had) =>
              /\ req[r].resp = AuthFailedRedirect
              /\ StaysUnauthenticated(req[r])
        /\ (req[r].exchange = "error" /\ ~req[r].had) =>
              /\ req[r].resp.kind = "json"
              /\ req[r].resp.status = 500
              /\ StaysUnauthenticated(req[r])

\* a callback whose exchange ended in an error has been answered with the
\* 500 body of the error handler
C13_Witness ==
    \E r \in Exchanged :
        /\ req[r].exchange = "error"
        /\ ~req[r].had
        /\ req[r].resp.kind = "json"
        /\ req[r].resp.status = 500
        /\ req[r].user = NoUser

(***************************************************************************)
(* C14: upstream failures                                                  *)
(***************************************************************************)
\* the outcomes of an upstream call that timed out or met a network error
Unreachable == {"timeout", "network"}

\* an upstream call made for the request timed out or failed: the user
\* check of the gate, the stats call of GET /dashboard, the proxy call of
\* a handler of the dashboard variant, or the call of getBotGuilds
UpstreamFailed(rq) ==
    \/ rq.answer[1] \in Unreachable
    \/ rq.stats[1] \in Unreachable
    \/ rq.proxied[1] \in Unreachable
    \/ rq.failed

\* the answered requests for which an upstream call failed
AnsweredAfterFailure ==
    {r \in DOMAIN req : req[r].pc = "done" /\ UpstreamFailed(req[r])}

\* C14 as stated: a request for which an upstream call timed out or failed
\* with a network error is never answered with an error status.
C14_NoErrorStatus ==
    \A r \in AnsweredAfterFailure : req[r].resp.status < 400

\* what does hold: the same on every route but the connect proxy of the
\* dashboard variant, which answers 500; the stats routes answer 200 with
\* the default values, or with the size of the cached list, and the gate
\* answers a failed user check with the redirect to the login page
C14_NoErrorStatusButConnect ==
    \A r \in AnsweredAfterFailure :
        /\ req[r].resp.status >= 400 =>
              /\ req[r].route = "POST /api/guild/:guildId/connect"
              /\ req[r].proxied[1] \in Unreachable
        /\ (req[r].route = "GET /api/bot/stats" /\ req[r].proxied[1] \in Unreachable) =>
              /\ req[r].resp.status = 200
              /\ req[r].resp.json.stats =
                    [DefaultStats EXCEPT !.totalServers =
                        Len(FilterManageable(req[r].user.guilds))]
        /\ (req[r].route = "GET /api/bot/stats" /\ req[r].failed) =>
              /\ req[r].resp.status = 200
              /\ req[r].resp.json.stats.totalServers = Len(req[r].cached)
        /\ req[r].proxied[1] \in Unreachable =>
              \/ req[r].route = "GET /api/bot/stats"
              \/ req[r].resp.status = 500

\* the connect proxy of the dashboard variant has answered after a timeout
\* of the main server
C14_Witness ==
    \E r \in AnsweredAfterFailure :
        /\ variant = "dashboard"
        /\ req[r].route = "POST /api/guild/:guildId/connect"
        /\ req[r].proxied[1] = "timeout"
        /\ req[r].resp.kind = "json"
        /\ req[r].resp.status = 500

(***************************************************************************)
(* C15: the life of a session                                              *)
(***************************************************************************)
\* the logout requests that have been answered, on a session that held a User
LoggedOut ==
    {x \in DOMAIN req :
        req[x].pc = "done" /\ req[x].route = "GET /logout" /\ req[x].had}

\* the step receives, in slot r, a request for the route with the cookie
Receives(r, cookie, route) ==
    \E gid \in GuildIds \cup {""}, q \in Queries \cup {<<>>} :
        \/ DashReceive(r, cookie, route, gid, q)
        \/ AuthReceive(r, cookie, route, gid, q)

\* after the step, the request in slot r is where the gate puts a request
\* without a User: waiting for the main server's user check (dashboard
\* variant), or redirected to the login page (auth backend); the handler
\* has not run
GatedAgain(r) ==
    /\ ~req'[r].ranHandler
    /\ variant = "dashboard" =>
          /\ req'[r].pc = "awaitUser"
          /\ req'[r].userCalls = 1
    /\ variant = "auth" =>
          /\ req'[r].pc = "done"
          /\ req'[r].resp = Redirect(<<FINAL_WEBSITE_URL, "/login">>)

\* C15: a session comes to hold a User only at the end of a request that
\* authenticated successfully (the main server's user check passed, or the
\* code exchange succeeded).  When GET /logout has been answered, the store
\* holds no User for its session, and a request that arrives next with the
\* same cookie finds no User: on a gated route it is put through the gate
\* again.
C15_SessionLifecycle ==
    [][ /\ \A s \in SessionIds :
              (store[s] = NoUser /\ store'[s] # NoUser) =>
                  \E r \in DOMAIN req :
                      /\ req'[r].pc = "done"
                      /\ req'[r].sid = s
                      /\ req'[r].user = store'[s]
                      /\ Passed(req'[r].answer) \/ req'[r].exchange = "ok"
        /\ \A x \in LoggedOut :
              /\ store[req[x].sid] = NoUser
              /\ \A r \in DOMAIN req, route \in GatedRoutes :
                    Receives(r, req[x].sid, route) =>
                        /\ ~req'[r].had
                        /\ req'[r].user = NoUser \/ req'[r].pc = "done"
                        /\ GatedAgain(r)
      ]_vars

\* GET /logout has been answered on a session that held a User, and the
\* store holds no User for it
C15_Witness ==
    \E x \in LoggedOut :
        /\ req[x].sid \in SessionIds
        /\ req[x].sid < nextSid
        /\ store[req[x].sid] = NoUser
        /\ req[x].resp.kind = "redirect"

(***************************************************************************)
(* C16: the JSON envelope                                                  *)
(***************************************************************************)
\* the requests answered with a JSON body
JsonAnswered == {r \in DOMAIN req : req[r].pc = "done" /\ req[r].resp.kind = "json"}

\* the body is an object with a boolean success field; with an error
\* status, success is false and the body has an error string
Enveloped(resp) ==
    /\ "success" \in resp.json.fields
    /\ resp.status >= 400 =>
          /\ ~resp.json.success
          /\ "error" \in resp.json.fields
          /\ resp.json.error # ""

\* C16 as stated: every JSON response of either variant has the envelope.
C16_Envelope == \A r \in JsonAnswered : Enveloped(req[r].resp)

\* the bodies the program builds without a success field, and the routes
\* of the dashboard variant that pass on the body of the main server
Unenveloped(rq) ==
    \/ rq.route \in {"GET /health", "GET /", "GET /unknown"}
    \/ rq.exchange = "error"
    \/ rq.proxied[1] = "ok"

\* what does hold: every other JSON response has the envelope
C16_EnvelopeElsewhere ==
    \A r \in JsonAnswered : ~Unenveloped(req[r]) => Enveloped(req[r].resp)

\* the 404 handler of the auth backend has answered with a body without a
\* success field
C16_Witness ==
    \E r \in JsonAnswered :
        /\ variant = "auth"
        /\ req[r].route = "GET /unknown"
        /\ req[r].resp.status = 404
        /\ "success" \notin req[r].resp.json.fields
        /\ "error" \in req[r].resp.json.fields

(***************************************************************************)
(* C17: the derived fields of the session's User                           *)
(***************************************************************************)
\* the derived fields of the guilds of a user
Derived(user) ==
    [i \in 1..Len(user.guilds) |->
        [id |-> user.guilds[i].id,
         manageable |-> user.guilds[i].manageable,
         bot_installed |-> user.guilds[i].bot_installed,
         login_url |-> user.guilds[i].login_url]]

\* after the step, a callback whose code exchange succeeded has ended on
\* session s
LoginEnds(s) ==
    \E r \in DOMAIN req :
        /\ req'[r].pc = "done"
        /\ req'[r].route = "GET /auth/discord/callback"
        /\ req'[r].exchange = "ok"
        /\ req'[r].sid = s

\* C17: in the auth backend, while a session holds a User, no step changes
\* the derived fields of its guilds but the end of a new authentication on
\* that session: not a request to /api/user, /api/bot/stats,
\* /api/guild/:guildId, connect or /api/login/:guildId, and not a refresh of
\* the bot-guild cache.  The handlers of these routes do not write the
\* session, and GET /api/guild/:guildId answers with the guild as stored.
C17_DerivedFieldsFrozen ==
    [][ variant = "auth" =>
          /\ \A s \in SessionIds :
                (store[s] # NoUser /\ store'[s] # NoUser) =>
                    \/ Derived(store'[s]) = Derived(store[s])
                    \/ LoginEnds(s)
          /\ \A r \in DOMAIN req :
                (req'[r].pc = "done" /\ req'[r].had /\ req'[r].route \in AuthGated) =>
                    /\ ~req'[r].dirty
                    /\ (req'[r].route = "GET /api/guild/:guildId"
                          /\ req'[r].resp.status = 200) =>
                          req'[r].resp.json.guild = FindGuild(req'[r].user.guilds, req'[r].gid)
      ]_vars

\* GET /api/bot/stats has refreshed the cache, which now lists a guild of
\* the session's User, and the User still says the bot is not installed
\* there, as it was computed at the login
C17_Witness ==
    \E r \in DOMAIN req :
        /\ variant = "auth"
        /\ req[r].pc = "done"
        /\ req[r].route = "GET /api/bot/stats"
        /\ req[r].call = "issued"
        /\ ~req[r].failed
        /\ req[r].sid \in SessionIds
        /\ Len(store[req[r].sid].guilds) > 0
        /\ Includes(botCache.guilds, store[req[r].sid].guilds[1].id)
        /\ ~store[req[r].sid].guilds[1].bot_installed
        /\ store[req[r].sid].guilds[1].login_url # <<>>

(***************************************************************************)
(* C18, C19: overlapping calls of getBotGuilds                             *)
(***************************************************************************)
\* the cache was stale, or never filled, when the call of r read it
StaleAtCall(r) ==
    \/ req[r].lastUpdate = 0
    \/ req[r].now - req[r].lastUpdate >= CacheTtl

\* C18: nothing but the freshness test decides whether a call issues a
\* request to Discord: a call that finds the cache stale, or never filled,
\* issues its own request also when requests of earlier calls are still
\* awaited, so two calls in the same stale window both issue one.
C18_NoLock ==
    \A r \in Callers :
        /\ StaleAtCall(r) => req[r].call = "issued"
        /\ req[r].call = "issued" => StaleAtCall(r)

\* two calls read the same stale cache, the second while the request of
\* the first was awaited, and the requests of both are awaited
C18_Witness ==
    \E r, x \in Callers :
        /\ r # x
        /\ req[r].pc = "awaitGuilds" /\ req[x].pc = "awaitGuilds"
        /\ req[r].call = "issued" /\ req[x].call = "issued"
        /\ req[x].pending = 1
        /\ req[r].lastUpdate = req[x].lastUpdate
        /\ req[r].lastUpdate # 0
        /\ Awaiting = 2

\* C19 as stated: botCache.lastUpdate never decreases.
C19_LastUpdateMonotonic ==
    [][botCache'.lastUpdate >= botCache.lastUpdate]_vars

\* a refresh has stored a timestamp smaller than the one the cache held:
\* its call began before the call whose refresh had stored that one
C19_Witness ==
    \E r \in Callers :
        /\ req[r].pc = "done"
        /\ req[r].call = "issued"
        /\ ~req[r].failed
        /\ req[r].now < req[r].cachedAt
        /\ botCache.lastUpdate = req[r].now

(***************************************************************************)
(* C20: the OAuth tokens                                                   *)
(***************************************************************************)
\* the tokens of the Users the sessions hold and of the profiles of the
\* requests being served
Tokens ==
    ({store[s].accessToken : s \in SessionIds}
        \cup {store[s].refreshToken : s \in SessionIds}
        \cup {req[r].profile.accessToken : r \in DOMAIN req}
        \cup {req[r].profile.refreshToken : r \in DOMAIN req}
        \cup {req[r].user.accessToken : r \in DOMAIN req}
        \cup {req[r].user.refreshToken : r \in DOMAIN req}) \ {""}

\* the strings a response carries in its body and its Location header
Carried(resp) ==
    {resp.json.user.accessToken, resp.json.user.refreshToken, resp.json.error}
        \cup {resp.json.login_url[i] : i \in 1..Len(resp.json.login_url)}
        \cup {resp.json.guild.login_url[i] : i \in 1..Len(resp.json.guild.login_url)}
        \cup {resp.location[i] : i \in 1..Len(resp.location)}

\* C20: no response of the auth backend carries an accessToken or a
\* refreshToken of a session's User; the user object of GET /api/user has
\* the six fields id, username, discriminator, avatar, avatar_url and guilds
\* of the User.
C20_NoTokenInBody ==
    \A r \in DOMAIN req :
        (variant = "auth" /\ req[r].pc = "done") =>
            /\ Carried(req[r].resp) \cap Tokens = {}
            /\ (req[r].route = "GET /api/user" /\ req[r].resp.kind = "json") =>
                  /\ req[r].resp.json.user.id = req[r].user.id
                  /\ req[r].resp.json.user.guilds = req[r].user.guilds
                  /\ req[r].resp.json.user.accessToken = ""
                  /\ req[r].resp.json.user.refreshToken = ""

\* GET /api/user has answered for a session whose User holds both tokens
C20_Witness ==
    \E r \in DOMAIN req :
        /\ variant = "auth"
        /\ req[r].pc = "done"
        /\ req[r].route = "GET /api/user"
        /\ req[r].resp.kind = "json"
        /\ req[r].user.accessToken = "access-u1"
        /\ req[r].user.refreshToken = "refresh-u1"
        /\ req[r].sid \in SessionIds
        /\ store[req[r].sid].accessToken = "access-u1"
        /\ req[r].resp.json.user.id = "u1"

(***************************************************************************)
(* C21: the placeholder substitution of GET /dashboard                     *)
(***************************************************************************)
\* the statsData the handler of the request rendered with (lines 226-240)
StatsUsed(rq) ==
    IF rq.stats[1] = "ok"
    THEN IF rq.stats[2] # NoJson /\ "success" \in rq.stats[2].fields /\ rq.stats[2].success
         THEN rq.stats[2].stats
         ELSE DefaultStats
    ELSE [DefaultStats EXCEPT !.totalServers = Len(FilterManageable(rq.user.guilds))]

\* the value the replacements hold for a placeholder
ValueOf(repls, key) ==
    repls[CHOOSE k \in 1..Len(repls) : repls[k][1] = key][2]

\* the template with each of its placeholder occurrences replaced by the
\* value of that placeholder, as it is, and nothing else changed
SubstitutedOnce(template, repls) ==
    LET keys == {repls[k][1] : k \in 1..Len(repls)}
    IN  Concat([i \in 1..Len(template) |->
                  IF template[i] \in keys THEN ValueOf(repls, template[i])
                  ELSE Tag(<<template[i]>>, "tpl")])

\* the placeholder tokens
PlaceholderTokens == {Placeholders[k] : k \in 1..Len(Placeholders)}

\* the tokens of the document that come from the user's strings
UserTokens(doc) ==
    {i \in 1..Len(doc) : doc[i].src \in UserSources /\ doc[i].ch \in PlaceholderTokens}

\* C21: the document of a successful render is the template with each
\* placeholder occurrence replaced by exactly its own replacement value:
\* text inserted for one placeholder is not substituted by a later
\* replacement, so a placeholder token inside the username, the
\* discriminator or a guild name is in the document as the user wrote it.
C21_SubstitutedOnce ==
    \A r \in Rendered :
        req[r].resp.html =
            SubstitutedOnce(req[r].html, replacements(req[r].user, StatsUsed(req[r])))

\* the dashboard of the user named {{UPTIME}} with the discriminator
\* {{AVATAR_URL}} has been rendered from a template that shows both: the
\* document holds no token from the user; where the username was inserted
\* it holds the uptime, and where the discriminator was inserted, the
\* avatar URL
C21_Witness ==
    \E r \in Rendered :
        LET doc == req[r].resp.html
        IN  /\ req[r].user.username = <<"{{UPTIME}}">>
            /\ req[r].user.discriminator = <<"{{AVATAR_URL}}">>
            /\ \E i \in 1..(Len(req[r].html) - 2) :
                  /\ req[r].html[i] = "{{USERNAME}}"
                  /\ req[r].html[i + 2] = "{{DISCRIMINATOR}}"
            /\ UserTokens(doc) = {}
            /\ \A i \in 1..Len(doc) : doc[i].src \notin {"username", "discriminator"}
            /\ \E i \in 1..(Len(doc) - 2) :
                  /\ doc[i].src = "{{UPTIME}}"
                  /\ doc[i + 1].src = "tpl"
                  /\ doc[i + 2].src = "avatar"

\* the position of a placeholder in the order of the replacements
KeyIndex(repls, key) == CHOOSE k \in 1..Len(repls) : repls[k][1] = key

\* no value holds the token of a later replacement, and no value holds one
\* of the patterns $$ $& $` $' of String.prototype.replace
PlainValues(repls) ==
    \A k \in 1..Len(repls) :
        LET v == repls[k][2]
        IN  /\ \A i \in 1..Len(v) :
                  v[i].ch \in PlaceholderTokens => KeyIndex(repls, v[i].ch) <= k
            /\ \A i \in 1..(Len(v) - 1) :
                  ~(v[i].ch = "$" /\ v[i + 1].ch \in {"$", "&", BACKTICK, "'"})

\* What the code does keep: when no replacement value holds the token of a
\* later replacement or a pattern of String.prototype.replace, the document
\* is the template with each placeholder occurrence replaced by its value.
C21_PlainValuesSubstitutedOnce ==
    \A r \in Rendered :
        LET repls == replacements(req[r].user, StatsUsed(req[r]))
        IN  PlainValues(repls) =>
                req[r].resp.html = SubstitutedOnce(req[r].html, repls)

\* a render with such values, among them a guild named &{{USERNAME}}, whose
\* token stays in the document
C21_PlainWitness ==
    \E r \in Rendered :
        /\ PlainValues(replacements(req[r].user, StatsUsed(req[r])))
        /\ \E i \in UserTokens(req[r].resp.html) :
              /\ req[r].resp.html[i].ch = "{{USERNAME}}"
              /\ req[r].resp.html[i].src = "guildname"

====
